---- MODULE Spec2Model ----
(***************************************************************************)
(* Model of chamorroSearch.py: the LCS / smallest-window engine (lcs_sw),  *)
(* the spread-penalised score (spread_RO), the normaliser (preProcess) and *)
(* the ranker (search).                                                    *)
(*                                                                         *)
(* A string is a sequence of one-character strings.  Characters outside    *)
(* ASCII are written by name: "a_acute" is U+00E1, "A_acute" is U+00C1,    *)
(* "N_tilde" is U+00D1, "n_tilde" is U+00F1, "rsquo" is U+2019, and so on. *)
(* Python indices are 0-based and TLA+ sequences are 1-based: s1[i] of the *)
(* code is s1[i+1] here; the grid `lengths` keeps the code's 0-based       *)
(* indices.  A float score is kept as the exact fraction <<num, den>>.     *)
(***************************************************************************)
EXTENDS Integers, Sequences, FiniteSets, TLC

VARIABLES op, pc, s1, s2, lengths, lw, score, raised,
          query, dictionary, n, order, matches, results

vars == <<op, pc, s1, s2, lengths, lw, score, raised,
          query, dictionary, n, order, matches, results>>

(***************************************************************************)
(* Bounds of the model.                                                    *)
(***************************************************************************)
MaxLen == 4

MaxDict == 3

MaxN == 3

Alphabet == {"a", "b", "c"}

Min(x, y) == IF x < y THEN x ELSE y

Max(x, y) == IF x > y THEN x ELSE y

Strings(k) == UNION {[1..m -> Alphabet] : m \in 0..k}

BoundedStrings == Strings(MaxLen)

(***************************************************************************)
(* The arguments of the six calls of lcs_sw made by the demo in __main__.   *)
(***************************************************************************)
DemoCalls ==
    { << <<"a","b","c">>,             <<"a","c">> >>,
      << <<"a","b","b","c">>,         <<"a","c">> >>,
      << <<"a","c","a","b","c">>,     <<"a","c">> >>,
      << <<"a","b","c","a","c">>,     <<"a","c">> >>,
      << <<"a","b","a","c","b","c">>, <<"a","c">> >>,
      << <<"a","d","b","c">>,         <<"a","b","c">> >> }

(***************************************************************************)
(* lcs_sw: the dynamic programme.  A cell is <<length, begin, end>>.       *)
(***************************************************************************)
Span(cell) == cell[3] - cell[2]

\* lengths = [[(0, 0, 0) for j in range(rows)] for i in range(columns)]
InitLengths(a, b) == [i \in 0..Len(a) |-> [j \in 0..Len(b) |-> <<0, 0, 0>>]]

\* Candidate with the begin index never carried over from the diagonal.
Candidate_NoCarry(g, i, j) ==
    << g[i][j][1] + 1, i, i + 1 >>

\* The candidate (l, b, e) built from the diagonal predecessor on a match.
Candidate(g, i, j) ==
    LET diag == g[i][j]
    IN  << diag[1] + 1, IF diag[1] = 0 THEN i ELSE diag[2], i + 1 >>

\* MatchCell with the comparison against the neighbours left out.
MatchCell_KeepCandidate(g, i, j) ==
    << g[i][j][1] + 1, IF g[i][j][1] = 0 THEN i ELSE g[i][j][2], i + 1 >>

\* The branch taken when the characters match.
MatchCell(g, i, j) ==
    LET cand == Candidate(g, i, j)
        r    == g[i+1][j]
        d    == g[i][j+1]
    IN  IF r[1] = cand[1] \/ d[1] = cand[1]
        THEN IF r[1] > d[1]
             THEN IF Span(r) < Span(cand) THEN r ELSE cand
             ELSE IF d[1] > r[1]
                  THEN IF Span(d) < Span(cand) THEN d ELSE cand
                  ELSE IF Span(r) < Span(d) THEN r ELSE d
        ELSE cand

\* MismatchCell with the length comparisons reversed.
MismatchCell_Shorter(g, i, j) ==
    LET r == g[i+1][j]
        d == g[i][j+1]
    IN  IF r[1] < d[1] THEN r
        ELSE IF d[1] < r[1] THEN d
        ELSE IF Span(r) < Span(d) THEN r ELSE d

\* The branch taken when the characters differ.
MismatchCell(g, i, j) ==
    LET r == g[i+1][j]
        d == g[i][j+1]
    IN  IF r[1] > d[1] THEN r
        ELSE IF d[1] > r[1] THEN d
        ELSE IF Span(r) < Span(d) THEN r ELSE d

\* The body of the inner loop: the value stored in lengths[i+1][j+1].
Cell(g, a, b, i, j) ==
    IF a[i+1] = b[j+1] THEN MatchCell(g, i, j) ELSE MismatchCell(g, i, j)

\* for i, x in enumerate(s1), from index i on, in row j.
RECURSIVE InnerLoop(_, _, _, _, _)
InnerLoop(g, a, b, i, j) ==
    IF i >= Len(a) THEN g
    ELSE InnerLoop([g EXCEPT ![i+1][j+1] = Cell(g, a, b, i, j)], a, b, i + 1, j)

\* for j, y in enumerate(s2), from index j on.
RECURSIVE OuterLoop(_, _, _, _)
OuterLoop(g, a, b, j) ==
    IF j >= Len(b) THEN g
    ELSE OuterLoop(InnerLoop(g, a, b, 0, j), a, b, j + 1)

\* The grid when the loops are over.
FinalLengths(a, b) == OuterLoop(InitLengths(a, b), a, b, 0)

\* length, window = lengths[-1][-1][0], lengths[-1][-1][2] - lengths[-1][-1][1]
Result(g, a, b) ==
    LET last == g[Len(a)][Len(b)] IN << last[1], Span(last) >>

lcs_sw(a, b) == Result(FinalLengths(a, b), a, b)

(***************************************************************************)
(* spread_RO: 3 * lcs / (len(s1) + len(s2) + wl), a float division that    *)
(* raises ZeroDivisionError when the denominator is 0.                     *)
(***************************************************************************)
\* Numerator of the plain ratio test.
Numerator_Twice(lcs) == 2 * lcs

Numerator(lcs) == 3 * lcs

\* Denominator with the window left out.
Denominator_NoWindow(a, b, wl) == Len(a) + Len(b)

Denominator(a, b, wl) == Len(a) + Len(b) + wl

\* numerator / denominator for (lcs, wl) = r, kept as the pair of the two.
Quotient(a, b, r) == << Numerator(r[1]), Denominator(a, b, r[2]) >>

\* TRUE when the division of the quotient raises ZeroDivisionError.
Raises(q) == q[2] = 0

\* The quotient spread_RO(a, b) evaluates.
spread_RO(a, b) == Quotient(a, b, lcs_sw(a, b))

(***************************************************************************)
(* preProcess: unicode lower-casing, then the substitutions in order.      *)
(***************************************************************************)
\* unicode.lower() on the characters of the model.
Lower(c) ==
    CASE c = "A"       -> "a"
      [] c = "B"       -> "b"
      [] c = "C"       -> "c"
      [] c = "A_acute" -> "a_acute"
      [] c = "N_tilde" -> "n_tilde"
      [] OTHER         -> c

substitutions ==
    << <<"rsquo",   "apos">>,
       <<"e_acute", "e">>,
       <<"i_acute", "i">>,
       <<"o_acute", "o">>,
       <<"u_acute", "u">>,
       <<"a_acute", "a">>,
       <<"N_tilde", "n_tilde">> >>

\* word.lower(), character by character.
RECURSIVE LowerWord(_)
LowerWord(word) ==
    IF word = << >> THEN << >>
    ELSE <<Lower(Head(word))>> \o LowerWord(Tail(word))

\* word.replace(find, replace) for one-character find and replace.
RECURSIVE Replace(_, _, _)
Replace(word, find, replace) ==
    IF word = << >> THEN << >>
    ELSE <<IF Head(word) = find THEN replace ELSE Head(word)>>
            \o Replace(Tail(word), find, replace)

\* for (find, replace) in substitutions, from the k-th pair on.
RECURSIVE Substitute(_, _)
Substitute(word, k) ==
    IF k > Len(substitutions) THEN word
    ELSE Substitute(Replace(word, substitutions[k][1], substitutions[k][2]), k + 1)

preProcess(word) == Substitute(LowerWord(word), 1)

(***************************************************************************)
(* search: score every key, keep the n most common.                        *)
(***************************************************************************)
\* x >= y for two quotients with positive denominators.
GeqScore(x, y) == x[1] * y[2] >= y[1] * x[2]

\* x > y for two quotients with positive denominators.
GtScore(x, y) == x[1] * y[2] > y[1] * x[2]

\* Insert key k behind every key of the sorted list whose score is >= its own.
RECURSIVE InsertDesc(_, _, _)
InsertDesc(sorted, k, m) ==
    IF sorted = << >> THEN <<k>>
    ELSE IF GeqScore(m[Head(sorted)], m[k])
         THEN <<Head(sorted)>> \o InsertDesc(Tail(sorted), k, m)
         ELSE <<k>> \o sorted

\* Stable sort of the keys by decreasing score, in iteration order ord.
RECURSIVE SortDesc(_, _, _)
SortDesc(ord, m, k) ==
    IF k = 0 THEN << >>
    ELSE InsertDesc(SortDesc(ord, m, k - 1), ord[k], m)

\* most_common without the sort: the first cnt keys in iteration order.
most_common_Unsorted(m, ord, cnt) ==
    SubSeq(ord, 1, Min(Max(cnt, 0), Len(ord)))

\* Counter(m).most_common(cnt): the cnt keys of largest score, largest first;
\* a non-positive cnt gives the empty list.
most_common(m, ord, cnt) ==
    SubSeq(SortDesc(ord, m, Len(ord)), 1, Min(Max(cnt, 0), Len(ord)))

\* The keys whose score cannot be computed.
FailingKeys(dict, q) ==
    {k \in DOMAIN dict : Raises(spread_RO(preProcess(k), q))}

\* matches[entry] = spread_RO(preProcess(entry), q)
Matches(dict, q) ==
    [k \in DOMAIN dict |-> spread_RO(preProcess(k), q)]

\* [ {k : dictionary[k]} for k in keys ]
Entries(dict, keys) ==
    [k \in 1..Len(keys) |-> [key |-> keys[k], value |-> dict[keys[k]]]]

(***************************************************************************)
(* Inputs of the model.                                                    *)
(***************************************************************************)
DefaultN == 5

KeyUniverse ==
    { << >>,
      <<"a","b">>,
      <<"A","b">>,
      <<"a_acute","c","b">>,
      <<"b","a">>,
      <<"c">> }

Queries ==
    { << >>,
      <<"a","b">>,
      <<"B","a_acute">>,
      <<"a","c","N_tilde","b">> }

\* The value stored under a key; search passes it through untouched.
ValueOf(k) == <<"definition", k>>

Dictionaries ==
    {[k \in K |-> ValueOf(k)] : K \in {S \in SUBSET KeyUniverse : Cardinality(S) <= MaxDict}}

\* The orders in which a mapping with these keys may be iterated.
IterationOrders(K) ==
    {f \in [1..Cardinality(K) -> K] : \A x, y \in 1..Cardinality(K) : f[x] = f[y] => x = y}

NoGrid == << >>

NoMatches == << >>

Init ==
    /\ pc = "call"
    /\ lengths = NoGrid
    /\ lw = <<0, 0>>
    /\ score = <<0, 1>>
    /\ raised = ""
    /\ matches = NoMatches
    /\ results = << >>
    /\ \/ /\ op = "lcs_sw"
          /\ \E call \in (BoundedStrings \X BoundedStrings) \cup DemoCalls :
                 s1 = call[1] /\ s2 = call[2]
          /\ query = << >> /\ dictionary = << >> /\ n = 0 /\ order = << >>
       \/ /\ op = "spread_RO"
          /\ \E call \in BoundedStrings \X BoundedStrings :
                 s1 = call[1] /\ s2 = call[2]
          /\ query = << >> /\ dictionary = << >> /\ n = 0 /\ order = << >>
       \/ /\ op = "search"
          /\ s1 = << >> /\ s2 = << >>
          /\ query \in Queries
          /\ dictionary \in Dictionaries
          /\ n \in (-1..MaxN) \cup {DefaultN}
          /\ order \in IterationOrders(DOMAIN dictionary)

\* A call of lcs_sw(s1, s2).
CallLcsSw ==
    /\ op = "lcs_sw" /\ pc = "call"
    /\ lengths' = FinalLengths(s1, s2)
    /\ lw' = Result(lengths', s1, s2)
    /\ pc' = "done"
    /\ UNCHANGED <<op, s1, s2, score, raised, query, dictionary, n, order, matches, results>>

\* A call of spread_RO(s1, s2), with its call of lcs_sw(s1, s2).
CallSpreadRO ==
    /\ op = "spread_RO" /\ pc = "call"
    /\ lengths' = FinalLengths(s1, s2)
    /\ lw' = Result(lengths', s1, s2)
    /\ IF Raises(Quotient(s1, s2, lw'))
       THEN raised' = "ZeroDivisionError" /\ UNCHANGED score
       ELSE score' = Quotient(s1, s2, lw') /\ UNCHANGED raised
    /\ pc' = "done"
    /\ UNCHANGED <<op, s1, s2, query, dictionary, n, order, matches, results>>

\* A call of search(query, dictionary, n): a score that cannot be computed
\* ends the call with the exception, before anything is selected.
CallSearch ==
    /\ op = "search" /\ pc = "call"
    /\ LET q == preProcess(query)
       IN  IF FailingKeys(dictionary, q) # {}
           THEN /\ raised' = "ZeroDivisionError"
                /\ UNCHANGED <<matches, results>>
           ELSE /\ matches' = Matches(dictionary, q)
                /\ results' = Entries(dictionary, most_common(matches', order, n))
                /\ UNCHANGED raised
    /\ pc' = "done"
    /\ UNCHANGED <<op, s1, s2, lengths, lw, score, query, dictionary, n, order>>

Next == CallLcsSw \/ CallSpreadRO \/ CallSearch

Spec == Init /\ [][Next]_vars

TypeOK ==
    /\ op \in {"lcs_sw", "spread_RO", "search"}
    /\ pc \in {"call", "done"}
    /\ raised \in {"", "ZeroDivisionError"}
    /\ lw \in Nat \X Nat
    /\ score \in Nat \X Nat

(***************************************************************************)
(* Reference definitions used by the properties: a longest common          *)
(* subsequence by exhaustive recursion, and the shortest substring of the  *)
(* first string that still holds one.                                      *)
(***************************************************************************)
RECURSIVE LCSLen(_, _)
LCSLen(a, b) ==
    IF a = << >> \/ b = << >> THEN 0
    ELSE IF Head(a) = Head(b) THEN 1 + LCSLen(Tail(a), Tail(b))
         ELSE Max(LCSLen(Tail(a), b), LCSLen(a, Tail(b)))

ShortestWindow(a, b) ==
    LET L     == LCSLen(a, b)
        spans == {w \in 1..Len(a) :
                    \E st \in 0..(Len(a) - w) : LCSLen(SubSeq(a, st + 1, st + w), b) = L}
    IN  IF L = 0 THEN 0 ELSE CHOOSE w \in spans : \A v \in spans : w <= v

NoSharedChar(a, b) == \A x \in 1..Len(a) : \A y \in 1..Len(b) : a[x] # b[y]

\* lcs_sw(s1, s2) has returned, to its caller or to spread_RO.
LcsSwDone == op \in {"lcs_sw", "spread_RO"} /\ pc = "done"

SpreadDone == op = "spread_RO" /\ pc = "done"

SearchDone == op = "search" /\ pc = "done"

\* C1: the window returned by lcs_sw(s1, s2) is the length of the shortest
\* contiguous substring of s1 that contains a longest common subsequence of
\* s1 and s2.
C1_WindowIsShortest ==
    LcsSwDone => lw[2] = ShortestWindow(s1, s2)

\* C2: the length returned by lcs_sw(s1, s2) is the length of a longest
\* common subsequence of s1 and s2; it lies in 0..min(|s1|, |s2|) and
\* lcs_sw(s2, s1) returns the same length.
C2_LengthIsLCS ==
    LcsSwDone =>
        /\ lw[1] = LCSLen(s1, s2)
        /\ lw[1] \in 0..Min(Len(s1), Len(s2))
        /\ lcs_sw(s2, s1)[1] = lw[1]

C2_Witness ==
    /\ LcsSwDone
    /\ s1 # s2
    /\ lw[1] >= 2
    /\ lw[1] < Min(Len(s1), Len(s2))
    /\ lcs_sw(s2, s1)[2] # lw[2]

\* The table of worked examples: s1, s2, length, window.
WorkedExamples ==
    { << <<"a","b","c">>,             <<"a","c">>,     2, 3 >>,
      << <<"a","b","b","c">>,         <<"a","c">>,     2, 4 >>,
      << <<"a","c","a","b","c">>,     <<"a","c">>,     2, 2 >>,
      << <<"a","b","c","a","c">>,     <<"a","c">>,     2, 2 >>,
      << <<"a","b","a","c","b","c">>, <<"a","c">>,     2, 2 >>,
      << <<"a","d","b","c">>,         <<"a","b","c">>, 3, 4 >> }

\* C3: lcs_sw returns the length and window of the table on each of the six
\* worked examples.
C3_WorkedExamples ==
    \A ex \in WorkedExamples :
        (LcsSwDone /\ s1 = ex[1] /\ s2 = ex[2]) => lw = <<ex[3], ex[4]>>

C3_Witness ==
    /\ LcsSwDone
    /\ s1 = <<"a","b","a","c","b","c">>
    /\ s2 = <<"a","c">>
    /\ lw = <<2, 2>>

\* C4: spread_RO("", "") returns 0 instead of failing on 0/0, and a search
\* never raises.
C4_EmptyScoreIsZero ==
    /\ (SpreadDone /\ s1 = << >> /\ s2 = << >>) => (raised = "" /\ score[1] = 0)
    /\ SearchDone => raised = ""

\* C5: with (length, window) = lcs_sw(s1, s2), length > 0 implies
\* length <= window <= |s1|, and window = 0 exactly when length = 0.
C5_WindowBounds ==
    LcsSwDone =>
        /\ lw[1] > 0 => (lw[1] <= lw[2] /\ lw[2] <= Len(s1))
        /\ lw[2] = 0 <=> lw[1] = 0

C5_Witness ==
    /\ LcsSwDone
    /\ lw[1] > 0
    /\ lw[1] < lw[2]
    /\ lw[2] < Len(s1)

\* C6 as stated: for s1, s2 not both empty, spread_RO(s1, s2) is at most
\* 3*min(|s1|,|s2|) / (|s1| + |s2| + max(|s1|,|s2|)), and it is 0 when the
\* strings share no character.
C6_BoundWithMax ==
    (SpreadDone /\ ~(s1 = << >> /\ s2 = << >>)) =>
        /\ raised = ""
        /\ score = << 3 * lw[1], Len(s1) + Len(s2) + lw[2] >>
        /\ GeqScore(<< 3 * Min(Len(s1), Len(s2)),
                       Len(s1) + Len(s2) + Max(Len(s1), Len(s2)) >>, score)
        /\ NoSharedChar(s1, s2) => score[1] = 0

\* C6 amended: for s1, s2 not both empty, spread_RO(s1, s2) is at most
\* 3*min(|s1|,|s2|) / (|s1| + |s2| + min(|s1|,|s2|)), and it is 0 when the
\* strings share no character.
C6_BoundWithMin ==
    (SpreadDone /\ ~(s1 = << >> /\ s2 = << >>)) =>
        /\ raised = ""
        /\ score = << 3 * lw[1], Len(s1) + Len(s2) + lw[2] >>
        /\ GeqScore(<< 3 * Min(Len(s1), Len(s2)),
                       Len(s1) + Len(s2) + Min(Len(s1), Len(s2)) >>, score)
        /\ NoSharedChar(s1, s2) => score[1] = 0

C6_Witness ==
    /\ SpreadDone
    /\ Len(s1) < Len(s2)
    /\ lw[1] = Len(s1)
    /\ score[1] * (Len(s1) + Len(s2) + Max(Len(s1), Len(s2)))
         > 3 * Min(Len(s1), Len(s2)) * score[2]

\* The score of a key of the search, from the normalised key and query.
ScoreOf(k) == spread_RO(preProcess(k), preProcess(query))

ReturnedKeys == {results[x].key : x \in 1..Len(results)}

\* C7: whenever search returns, the returned keys are distinct keys of the
\* dictionary in non-increasing order of score, each with its own value; no
\* key left out has a score strictly greater than a returned key, and keys
\* are left out only when n of them were returned; the score of a key is
\* spread_RO(preProcess(key), preProcess(query)).
C7_TopNOrdered ==
    (SearchDone /\ raised = "") =>
        /\ \A k \in DOMAIN dictionary : matches[k] = ScoreOf(k)
        /\ \A x \in 1..Len(results) :
              /\ results[x].key \in DOMAIN dictionary
              /\ results[x].value = dictionary[results[x].key]
        /\ \A x, y \in 1..Len(results) :
              x < y => /\ results[x].key # results[y].key
                       /\ GeqScore(matches[results[x].key], matches[results[y].key])
        /\ \A k \in DOMAIN dictionary \ ReturnedKeys :
              /\ Len(results) = Max(n, 0)
              /\ \A x \in 1..Len(results) : ~GtScore(matches[k], matches[results[x].key])

C7_Witness ==
    /\ SearchDone /\ raised = ""
    /\ Len(results) = 2
    /\ Cardinality(DOMAIN dictionary) = 3
    /\ GtScore(matches[results[1].key], matches[results[2].key])
    /\ \E k \in DOMAIN dictionary \ ReturnedKeys : GtScore(matches[results[2].key], matches[k])
    /\ order[1] \notin ReturnedKeys

\* C8: the number of results of search(q, d, n) is min(n, len(d)) when n >= 0
\* and 0 when n <= 0, for every query and dictionary, without error.
C8_ResultCount ==
    SearchDone =>
        /\ raised = ""
        /\ Len(results) = IF n >= 0 THEN Min(n, Cardinality(DOMAIN dictionary)) ELSE 0

\* C9: for a non-empty string s, lcs_sw(s, s) returns length |s| and window
\* |s|, so that spread_RO(s, s) is exactly 1.
C9_Identity ==
    (SpreadDone /\ s1 = s2 /\ s1 # << >>) =>
        /\ lw = <<Len(s1), Len(s1)>>
        /\ raised = ""
        /\ score[1] = score[2]

C9_Witness ==
    /\ SpreadDone
    /\ s1 = s2
    /\ Len(s1) = MaxLen
    /\ \E x, y \in 1..Len(s1) : x # y /\ s1[x] = s1[y]
    /\ score = <<3 * MaxLen, 3 * MaxLen>>

\* The cells (i, j) of the grid at which the two characters match.
MatchCells == {c \in (0..(Len(s1) - 1)) \X (0..(Len(s2) - 1)) : s1[c[1] + 1] = s2[c[2] + 1]}

\* The candidate of a cell and its orthogonal neighbours of the same length.
Contenders(i, j) ==
    {Candidate(lengths, i, j)}
      \cup {nb \in {lengths[i+1][j], lengths[i][j+1]} : nb[1] = Candidate(lengths, i, j)[1]}

====
